---- MODULE Spec2Model ----
(***************************************************************************)
(* Model of the cooperative task scheduler of rust_os:                     *)
(*   src/src/task/mod.rs       TaskId, Task                                *)
(*   src/src/task/executor.rs  TaskWaker, Executor                         *)
(*   src/src/task/keyboard.rs  SCANCODE_QUEUE, WAKER, add_scancode,        *)
(*                             ScancodeStream, print_keypresses            *)
(*                                                                         *)
(* One processor.  The scheduler context runs Task::new / Executor::spawn  *)
(* (before run()) and then Executor::run; each of its accesses to memory   *)
(* shared with interrupt handlers is one step.  An interrupt handler runs  *)
(* to completion between two scheduler steps whenever interrupts are       *)
(* enabled, so a handler is one atomic action.  A panic ends in the        *)
(* panic handler's `loop {}`: no action is enabled afterwards.             *)
(***************************************************************************)
EXTENDS Integers, Sequences, FiniteSets, TLC

(***************************************************************************)
(* Bounds.  The source's sizes (2^64 identifiers, queues of 100) are       *)
(* scaled down so that wrap-around and saturation are reachable.           *)
(***************************************************************************)
IdModulus == 3       \* stands for 2^64, the width of AtomicU64 NEXT_ID
TaskQueueCap == 2    \* stands for ArrayQueue::new(100) of Executor::new
ScancodeCap == 2     \* stands for ArrayQueue::new(100) of ScancodeStream::new
MaxSimpleTasks == 3  \* tasks spawned on a SimpleExecutor
MaxPending == 2      \* most Pending returns of a future that completes

MaxNew == IdModulus + 1      \* calls of TaskId::new explored (one past wrap-around)
Ids == 0 .. (IdModulus - 1)
Scancodes == {1, 2}           \* the scancode values an interrupt delivers (u8 in the source)
Kinds == {"future", "print_keypresses"}
\* A future that awaits one scancode of a new ScancodeStream and then completes.
ScenarioKinds == {"future", "read_once"}
\* The futures that own a ScancodeStream.
StreamKinds == {"print_keypresses", "read_once"}
NoPanic == "none"
NoArg == 0 - 1
SimpleIds == 1 .. MaxSimpleTasks
Forever == 0 - 1              \* a future that returns Pending at every poll
Lefts == (0 .. MaxPending) \cup {Forever}   \* Pending returns a future still makes

VARIABLES
    NEXT_ID,            \* static NEXT_ID: AtomicU64 of TaskId::new
    issued,             \* history: the values TaskId::new returned, in call order
    held,               \* the Task built by Task::new and not yet spawned ({} or {task})
    tasks,              \* Executor.tasks: TaskId -> Task (the future's state)
    task_queue,         \* Executor.task_queue: ArrayQueue<TaskId>
    waker_cache,        \* Executor.waker_cache: key set (the value is TaskWaker{id, task_queue})
    handles,            \* TaskIds whose Waker clone is held by an event source outside the executor
    SCANCODE_QUEUE,     \* static SCANCODE_QUEUE: OnceCell<ArrayQueue<u8>>
    WAKER,              \* static WAKER: AtomicWaker ({} or {id of the registered TaskWaker})
    undelivered,        \* history: scancodes add_scancode queued that no poll_next returned yet
    wakesSinceRegister, \* history: wakes add_scancode made since the last WAKER.register
    pc,                 \* position of the scheduler context
    task_id,            \* run_ready_tasks: the popped task_id being processed ({} or {id})
    scancode,           \* poll_next: the scancode of the second pop, before WAKER.take()
    result,             \* the Poll value task.poll returned, before the match
    interrupts_enabled, \* the processor's interrupt flag
    panic,              \* NoPanic, or the message of the panic that stopped the kernel
    completed,          \* history: TaskIds whose poll returned Ready
    inserts,            \* history: number of tasks.insert calls per TaskId
    pollDebt,           \* history: per TaskId, polls begun minus Pending returns
    removals,           \* history: per TaskId, tasks.remove calls that removed the task
    wakersMade,         \* history: per TaskId, calls of TaskWaker::new
    ev,                 \* history: the operation executed by the last step
    simple_pc,          \* SimpleExecutor: "idle" (outside run) or "run" (inside run)
    simple_task_queue,  \* SimpleExecutor::task_queue: VecDeque<Task>, each [id, left]
    simple_spawned,     \* history: number of SimpleExecutor::spawn calls
    simple_done,        \* history: tasks of the SimpleExecutor that returned Ready
    simple_ahead,       \* history: per task, the tasks that were ahead of it when it
                        \* was last re-queued and have not been polled since
    simple_ev           \* history: the last operation of the SimpleExecutor

simpleVars == << simple_pc, simple_task_queue, simple_spawned, simple_done,
                simple_ahead, simple_ev >>
kernelVars == << NEXT_ID, issued, held, tasks, task_queue, waker_cache, handles,
                 SCANCODE_QUEUE, WAKER, undelivered, wakesSinceRegister, pc, task_id,
                 scancode, result,
                 interrupts_enabled, panic, completed, inserts, pollDebt, removals,
                 wakersMade, ev >>
vars == << kernelVars, simpleVars >>

idVars == << NEXT_ID, issued, held >>
execVars == << tasks, waker_cache, completed, inserts, pollDebt, removals, wakersMade,
              simpleVars >>
bridgeVars == << SCANCODE_QUEUE, WAKER, undelivered, wakesSinceRegister >>
localVars == << task_id, scancode, result >>

Event(op, arg, out) == [op |-> op, arg |-> arg, out |-> out]

(***************************************************************************)
(* crossbeam ArrayQueue: bounded FIFO, push fails when full.               *)
(***************************************************************************)
\* Mutant: push appends whatever the length.
ArrayQueuePushUnbounded(q, cap, x) == [ok |-> TRUE, q |-> Append(q, x)]

ArrayQueuePush(q, cap, x) ==
    IF Len(q) < cap THEN [ok |-> TRUE, q |-> Append(q, x)]
                    ELSE [ok |-> FALSE, q |-> q]

\* Mutant: pop takes the newest element.
ArrayQueuePopNewest(q) ==
    IF q = << >> THEN [some |-> FALSE, val |-> NoArg, q |-> q]
                 ELSE [some |-> TRUE, val |-> q[Len(q)], q |-> SubSeq(q, 1, Len(q) - 1)]

ArrayQueuePop(q) ==
    IF q = << >> THEN [some |-> FALSE, val |-> NoArg, q |-> q]
                 ELSE [some |-> TRUE, val |-> Head(q), q |-> Tail(q)]

MapRemove(m, k) == [i \in (DOMAIN m) \ {k} |-> m[i]]
MapInsert(m, k, v) == (k :> v) @@ m

(***************************************************************************)
(* TaskId::new: NEXT_ID.fetch_add(1, Relaxed) returns the old value and    *)
(* stores old + 1 modulo the counter's width.                              *)
(***************************************************************************)
\* Mutant: the incremented value is returned (add_fetch instead of fetch_add).
FetchAddReturnsNew(n) == [ret |-> (n + 1) % IdModulus, next |-> (n + 1) % IdModulus]

\* Mutant: the counter is read but not incremented.
FetchAddNoIncrement(n) == [ret |-> n, next |-> n]

FetchAdd(n) == [ret |-> n, next |-> (n + 1) % IdModulus]

NewTask(kind, id) == [id |-> id, kind |-> kind]
TaskState(kind) == [kind |-> kind, stream |-> FALSE]

Init ==
    /\ NEXT_ID = 0
    /\ issued = << >>
    /\ held = {}
    /\ tasks = [i \in {} |-> TaskState("future")]
    /\ task_queue = << >>
    /\ waker_cache = {}
    /\ handles = {}
    /\ SCANCODE_QUEUE = [init |-> FALSE, q |-> << >>]
    /\ WAKER = {}
    /\ undelivered = << >>
    /\ wakesSinceRegister = 0
    /\ pc = "boot"
    /\ task_id = {}
    /\ scancode = {}
    /\ result = "none"
    /\ interrupts_enabled = TRUE
    /\ panic = NoPanic
    /\ completed = {}
    /\ inserts = [i \in Ids |-> 0]
    /\ pollDebt = [i \in Ids |-> 0]
    /\ removals = [i \in Ids |-> 0]
    /\ wakersMade = [i \in Ids |-> 0]
    /\ ev = Event("init", NoArg, "")
    /\ simple_pc = "idle"
    /\ simple_task_queue = << >>
    /\ simple_spawned = 0
    /\ simple_done = {}
    /\ simple_ahead = [i \in SimpleIds |-> {}]
    /\ simple_ev = Event("init", NoArg, "")

(***************************************************************************)
(* Boot phase (the kernel's startup sequence, before Executor::run).       *)
(***************************************************************************)

\* Task::new(future): TaskId::new() and the boxed future; the Task is held by the caller.
TaskNew(kind) ==
    /\ panic = NoPanic
    /\ pc = "boot"
    /\ held = {}
    /\ Len(issued) < MaxNew
    /\ LET r == FetchAdd(NEXT_ID) IN
         /\ NEXT_ID' = r.next
         /\ issued' = Append(issued, r.ret)
         /\ held' = {NewTask(kind, r.ret)}
         /\ ev' = Event("Task::new", r.ret, kind)
    /\ UNCHANGED << execVars, bridgeVars, localVars, task_queue, handles, pc,
                    interrupts_enabled, panic >>

\* The held Task is dropped without being spawned.
TaskDrop ==
    /\ panic = NoPanic
    /\ pc = "boot"
    /\ held # {}
    /\ held' = {}
    /\ ev' = Event("drop", (CHOOSE t \in held : TRUE).id, "")
    /\ UNCHANGED << NEXT_ID, issued, execVars, bridgeVars, localVars, task_queue,
                    handles, pc, interrupts_enabled, panic >>

\* Mutant: the new TaskId is put at the head of the ready queue.
SpawnOutcomeFront(tbl, q, task) ==
    IF task.id \in DOMAIN tbl
    THEN [tasks |-> MapInsert(tbl, task.id, TaskState(task.kind)), q |-> q,
          panic |-> "task with same ID already in tasks"]
    ELSE [tasks |-> MapInsert(tbl, task.id, TaskState(task.kind)),
          q |-> IF Len(q) < TaskQueueCap THEN << task.id >> \o q ELSE q,
          panic |-> IF Len(q) < TaskQueueCap THEN NoPanic ELSE "queue full"]

\* Mutant: the result of tasks.insert is ignored, a duplicate TaskId overwrites.
SpawnOutcomeOverwrite(tbl, q, task) ==
    LET r == ArrayQueuePush(q, TaskQueueCap, task.id) IN
    [tasks |-> MapInsert(tbl, task.id, TaskState(task.kind)), q |-> r.q,
     panic |-> IF r.ok THEN NoPanic ELSE "queue full"]

\* Executor::spawn, the outcome of `tasks.insert(task.id, task).is_some()` and of
\* `task_queue.push(task_id).expect("queue full")`.
SpawnOutcome(tbl, q, task) ==
    IF task.id \in DOMAIN tbl
    THEN [tasks |-> MapInsert(tbl, task.id, TaskState(task.kind)), q |-> q,
          panic |-> "task with same ID already in tasks"]
    ELSE LET r == ArrayQueuePush(q, TaskQueueCap, task.id) IN
         [tasks |-> MapInsert(tbl, task.id, TaskState(task.kind)), q |-> r.q,
          panic |-> IF r.ok THEN NoPanic ELSE "queue full"]

Spawn ==
    /\ panic = NoPanic
    /\ pc = "boot"
    /\ held # {}
    /\ LET task == CHOOSE t \in held : TRUE
           o == SpawnOutcome(tasks, task_queue, task) IN
         /\ tasks' = o.tasks
         /\ task_queue' = o.q
         /\ panic' = o.panic
         /\ inserts' = [inserts EXCEPT ![task.id] = @ + 1]
         /\ ev' = Event("spawn", task.id, o.panic)
    /\ held' = {}
    /\ UNCHANGED << NEXT_ID, issued, waker_cache, completed, simpleVars, pollDebt,
                    removals, wakersMade, bridgeVars, localVars, handles, pc, interrupts_enabled >>

\* Executor::run is entered; it never returns.  Explored for the startup
\* sequences that spawned every Task they created, as `spawn(Task::new(..))`
\* does; NEXT_ID is not read after the startup.
Run ==
    /\ panic = NoPanic
    /\ pc = "boot"
    /\ held = {}
    /\ Len(issued) = Cardinality(DOMAIN tasks)
    /\ pc' = "run_ready_tasks"
    /\ ev' = Event("run", NoArg, "")
    /\ UNCHANGED << idVars, execVars, bridgeVars, localVars, task_queue, handles,
                    interrupts_enabled, panic >>

(***************************************************************************)
(* Interrupt context.  A handler runs only while interrupts are enabled;   *)
(* an interrupt ends the hlt of enable_and_hlt, after which sleep_if_idle  *)
(* returns and run() loops to run_ready_tasks.  A handler that panics      *)
(* never returns.                                                          *)
(***************************************************************************)
AfterInterrupt(p) == IF pc = "hlt" /\ p = NoPanic THEN "run_ready_tasks" ELSE pc

\* Mutant: the waker pushes the TaskId that follows its own.
WakeTaskWrongId(q, id) ==
    LET r == ArrayQueuePush(q, TaskQueueCap, (id + 1) % IdModulus) IN
    [q |-> r.q, panic |-> IF r.ok THEN NoPanic ELSE "task_queue full"]

\* Mutant: a wake that finds the ready queue full is dropped silently.
WakeTaskDropWhenFull(q, id) ==
    [q |-> ArrayQueuePush(q, TaskQueueCap, id).q, panic |-> NoPanic]

\* TaskWaker::wake_task: task_queue.push(self.task_id).expect("task_queue full")
WakeTask(q, id) ==
    LET r == ArrayQueuePush(q, TaskQueueCap, id) IN
    [q |-> r.q, panic |-> IF r.ok THEN NoPanic ELSE "task_queue full"]

\* Mutant: the registered waker is taken out of the cell but not woken.
AtomicWakerWakeForgets(cell, q) == [q |-> q, panic |-> NoPanic]

\* AtomicWaker::wake: take the registered waker, if any, and wake it.
AtomicWakerWake(cell, q) ==
    IF cell = {} THEN [q |-> q, panic |-> NoPanic]
                 ELSE WakeTask(q, CHOOSE t \in cell : TRUE)

\* Mutant: the registered waker is woken whether or not the scancode was queued.
AddScancodeWakeAlways(sq, cell, q, sc) ==
    LET r == IF sq.init THEN ArrayQueuePush(sq.q, ScancodeCap, sc)
                        ELSE [ok |-> FALSE, q |-> sq.q]
        w == AtomicWakerWake(cell, q) IN
    [sq |-> [sq EXCEPT !.q = r.q], cell |-> {}, q |-> w.q, panic |-> w.panic,
     out |-> IF ~sq.init THEN "uninitialized"
             ELSE IF ~r.ok THEN "full"
             ELSE IF cell = {} THEN "pushed" ELSE "woken"]

\* Mutant: on a full queue the oldest scancode is overwritten and the waker woken.
AddScancodeForcePush(sq, cell, q, sc) ==
    IF ~sq.init
    THEN [sq |-> sq, cell |-> cell, q |-> q, panic |-> NoPanic, out |-> "uninitialized"]
    ELSE LET full == Len(sq.q) >= ScancodeCap
             nq == IF full THEN Append(Tail(sq.q), sc) ELSE Append(sq.q, sc)
             w == AtomicWakerWake(cell, q) IN
         [sq |-> [sq EXCEPT !.q = nq], cell |-> {}, q |-> w.q, panic |-> w.panic,
          out |-> IF full THEN "full" ELSE IF cell = {} THEN "pushed" ELSE "woken"]

\* Mutant: add_scancode creates the scancode queue when there is none and
\* stores the scancode in it.
AddScancodeLazyInit(sq, cell, q, sc) ==
    LET r == ArrayQueuePush(sq.q, ScancodeCap, sc) IN
    IF ~r.ok
    THEN [sq |-> sq, cell |-> cell, q |-> q, panic |-> NoPanic, out |-> "full"]
    ELSE LET w == AtomicWakerWake(cell, q) IN
         [sq |-> [init |-> TRUE, q |-> r.q], cell |-> {}, q |-> w.q,
          panic |-> w.panic, out |-> IF cell = {} THEN "pushed" ELSE "woken"]

\* Mutant: the wake made by add_scancode leaves the registration in the cell.
AddScancodeKeepsRegistration(sq, cell, q, sc) ==
    IF ~sq.init
    THEN [sq |-> sq, cell |-> cell, q |-> q, panic |-> NoPanic, out |-> "uninitialized"]
    ELSE LET r == ArrayQueuePush(sq.q, ScancodeCap, sc) IN
         IF ~r.ok
         THEN [sq |-> sq, cell |-> cell, q |-> q, panic |-> NoPanic, out |-> "full"]
         ELSE LET w == AtomicWakerWake(cell, q) IN
              [sq |-> [sq EXCEPT !.q = r.q], cell |-> cell, q |-> w.q,
               panic |-> w.panic, out |-> IF cell = {} THEN "pushed" ELSE "woken"]

\* add_scancode(scancode): the outcome for the scancode queue, the waker cell
\* and the ready queue.
AddScancodeOutcome(sq, cell, q, sc) ==
    IF ~sq.init
    THEN [sq |-> sq, cell |-> cell, q |-> q, panic |-> NoPanic, out |-> "uninitialized"]
    ELSE LET r == ArrayQueuePush(sq.q, ScancodeCap, sc) IN
         IF ~r.ok
         THEN [sq |-> sq, cell |-> cell, q |-> q, panic |-> NoPanic, out |-> "full"]
         ELSE LET w == AtomicWakerWake(cell, q) IN
              [sq |-> [sq EXCEPT !.q = r.q], cell |-> {}, q |-> w.q,
               panic |-> w.panic, out |-> IF cell = {} THEN "pushed" ELSE "woken"]

\* Mutant: the wake made by add_scancode also drops the woken task's cached waker.
KeyboardInterruptDropsCachedWaker(sc) ==
    /\ panic = NoPanic
    /\ interrupts_enabled
    /\ LET o == AddScancodeOutcome(SCANCODE_QUEUE, WAKER, task_queue, sc) IN
         /\ SCANCODE_QUEUE' = o.sq
         /\ WAKER' = o.cell
         /\ task_queue' = o.q
         /\ panic' = o.panic
         /\ pc' = AfterInterrupt(o.panic)
         /\ waker_cache' = IF o.out = "woken" THEN waker_cache \ WAKER ELSE waker_cache
         /\ undelivered' = IF o.out \in {"pushed", "woken"} THEN Append(undelivered, sc)
                                                           ELSE undelivered
         /\ wakesSinceRegister' = IF Len(o.q) > Len(task_queue)
                                  THEN wakesSinceRegister + 1 ELSE wakesSinceRegister
         /\ ev' = Event("add_scancode", sc, o.out)
    /\ UNCHANGED << idVars, tasks, completed, inserts, simpleVars, pollDebt, removals, wakersMade,
                    localVars, handles, interrupts_enabled >>

\* keyboard_interrupt_handler -> add_scancode
KeyboardInterrupt(sc) ==
    /\ panic = NoPanic
    /\ interrupts_enabled
    /\ LET o == AddScancodeOutcome(SCANCODE_QUEUE, WAKER, task_queue, sc) IN
         /\ SCANCODE_QUEUE' = o.sq
         /\ WAKER' = o.cell
         /\ task_queue' = o.q
         /\ panic' = o.panic
         /\ pc' = AfterInterrupt(o.panic)
         /\ undelivered' = IF o.out \in {"pushed", "woken"} THEN Append(undelivered, sc)
                                                           ELSE undelivered
         /\ wakesSinceRegister' = IF Len(o.q) > Len(task_queue)
                                  THEN wakesSinceRegister + 1 ELSE wakesSinceRegister
         /\ ev' = Event("add_scancode", sc, o.out)
    /\ UNCHANGED << idVars, execVars, localVars, handles, interrupts_enabled >>

\* An event source other than the keyboard invokes a Waker clone it holds
\* (Wake::wake / wake_by_ref of TaskWaker).
ExternalWake(id) ==
    /\ panic = NoPanic
    /\ interrupts_enabled
    /\ id \in handles
    /\ LET w == WakeTask(task_queue, id) IN
         /\ task_queue' = w.q
         /\ panic' = w.panic
         /\ pc' = AfterInterrupt(w.panic)
         /\ ev' = Event("wake", id, w.panic)
    /\ UNCHANGED << idVars, execVars, bridgeVars, localVars, handles, interrupts_enabled >>

\* timer_interrupt_handler: touches nothing of the scheduler, but ends a hlt.
TimerInterrupt ==
    /\ panic = NoPanic
    /\ interrupts_enabled
    /\ pc = "hlt"
    /\ pc' = AfterInterrupt(NoPanic)
    /\ ev' = Event("timer", NoArg, "")
    /\ UNCHANGED << idVars, execVars, bridgeVars, localVars, task_queue, handles,
                    interrupts_enabled, panic >>

(***************************************************************************)
(* Scheduler context: Executor::run = loop { run_ready_tasks();            *)
(* sleep_if_idle() }.                                                      *)
(***************************************************************************)
CurrentId == CHOOSE t \in task_id : TRUE

\* Mutant: the waker cache entry is created before the task is looked up.
LookupEntryFirst(tbl, cache, id) ==
    [found |-> id \in DOMAIN tbl, cache |-> cache \cup {id}, created |-> id \notin cache,
     next |-> IF id \in DOMAIN tbl THEN "poll" ELSE "run_ready_tasks"]

\* Mutant: a new TaskWaker is built for every poll instead of the cached one.
LookupAlwaysCreate(tbl, cache, id) ==
    IF id \in DOMAIN tbl
    THEN [found |-> TRUE, cache |-> cache \cup {id}, created |-> TRUE, next |-> "poll"]
    ELSE [found |-> FALSE, cache |-> cache, created |-> FALSE, next |-> "run_ready_tasks"]

\* Mutant: a TaskId that is not in the task table ends the pass (`break`
\* instead of `continue`).
LookupBreakOnMiss(tbl, cache, id) ==
    IF id \in DOMAIN tbl
    THEN [found |-> TRUE, cache |-> cache \cup {id}, created |-> id \notin cache,
          next |-> "poll"]
    ELSE [found |-> FALSE, cache |-> cache, created |-> FALSE, next |-> "sleep_if_idle"]

\* run_ready_tasks, one iteration up to the poll: `tasks.get_mut(&task_id)` and
\* `waker_cache.entry(task_id).or_insert_with(..)`; `created` tells whether
\* or_insert_with called TaskWaker::new; `next` is where the loop goes on: to
\* the poll, or (`None => continue`) to the next pop.
Lookup(tbl, cache, id) ==
    IF id \in DOMAIN tbl
    THEN [found |-> TRUE, cache |-> cache \cup {id}, created |-> id \notin cache,
          next |-> "poll"]
    ELSE [found |-> FALSE, cache |-> cache, created |-> FALSE, next |-> "run_ready_tasks"]

\* `while let Some(task_id) = task_queue.pop()`
RunReadyPop ==
    /\ panic = NoPanic
    /\ pc = "run_ready_tasks"
    /\ LET r == ArrayQueuePop(task_queue) IN
         /\ task_queue' = r.q
         /\ IF ~r.some
            THEN /\ pc' = "sleep_if_idle"
                 /\ ev' = Event("pop", NoArg, "empty")
                 /\ UNCHANGED << waker_cache, task_id, pollDebt, wakersMade >>
            ELSE LET l == Lookup(tasks, waker_cache, r.val) IN
                 /\ waker_cache' = l.cache
                 /\ wakersMade' = IF l.created
                                  THEN [wakersMade EXCEPT ![r.val] = @ + 1]
                                  ELSE wakersMade
                 /\ pc' = l.next
                 /\ IF l.found
                    THEN /\ task_id' = {r.val}
                         /\ pollDebt' = [pollDebt EXCEPT ![r.val] = @ + 1]
                         /\ ev' = Event("pop", r.val, "task")
                    ELSE /\ task_id' = task_id
                         /\ pollDebt' = pollDebt
                         /\ ev' = Event("pop", r.val, "stale")
    /\ UNCHANGED << idVars, tasks, completed, inserts, simpleVars, removals, bridgeVars, scancode,
                    result, handles, interrupts_enabled, panic >>

\* task.poll(&mut context) of an opaque future: it may keep a clone of the
\* context's Waker for its event source, and returns Ready or Pending.
PollFuture(r) ==
    /\ panic = NoPanic
    /\ pc = "poll"
    /\ tasks[CurrentId].kind = "future"
    /\ result' = r
    /\ handles' = handles \cup task_id
    /\ completed' = IF r = "Ready" THEN completed \cup task_id ELSE completed
    /\ pollDebt' = IF r = "Pending" THEN [pollDebt EXCEPT ![CurrentId] = @ - 1]
                                    ELSE pollDebt
    /\ pc' = "match"
    /\ ev' = Event("poll", CurrentId, r)
    /\ UNCHANGED << idVars, tasks, waker_cache, inserts, simpleVars, removals, wakersMade,
                    bridgeVars, task_queue, task_id, scancode, interrupts_enabled,
                    panic >>

\* Mutant: a later ScancodeStream::new installs a fresh queue.
TryInitOnceReinit(sq) == [sq |-> [init |-> TRUE, q |-> << >>], panic |-> NoPanic]

\* ScancodeStream::new: SCANCODE_QUEUE.try_init_once(..).expect(..)
TryInitOnce(sq) ==
    IF sq.init
    THEN [sq |-> sq, panic |-> "ScancodeStream::new should only be called once"]
    ELSE [sq |-> [init |-> TRUE, q |-> << >>], panic |-> NoPanic]

\* First poll of a stream future: `let mut scancodes = ScancodeStream::new();`
StreamNew ==
    /\ panic = NoPanic
    /\ pc = "poll"
    /\ tasks[CurrentId].kind \in StreamKinds
    /\ ~tasks[CurrentId].stream
    /\ LET o == TryInitOnce(SCANCODE_QUEUE) IN
         /\ SCANCODE_QUEUE' = o.sq
         /\ panic' = o.panic
         /\ ev' = Event("ScancodeStream::new", CurrentId, o.panic)
    /\ tasks' = [tasks EXCEPT ![CurrentId].stream = TRUE]
    /\ pc' = "first_pop"
    /\ UNCHANGED << idVars, waker_cache, completed, inserts, simpleVars, pollDebt, removals,
                    wakersMade, WAKER, undelivered, wakesSinceRegister, task_queue, localVars, handles,
                    interrupts_enabled >>

\* print_keypresses on Ready(Some(scancode)): it handles the key and awaits
\* scancodes.next() again inside the same Task::poll.
PrintKeypressesAfterScancode == [pc |-> "first_pop", result |-> result, done |-> FALSE]

\* The future of the two-task scenario on Ready(Some(scancode)): it returns Ready(()).
ReadOnceAfterScancode == [pc |-> "match", result |-> "Ready", done |-> TRUE]

\* History: poll_next returned Ready with a scancode, the oldest undelivered
\* scancode counts as returned.
Returned(seq) == IF seq = << >> THEN seq ELSE Tail(seq)

\* Task::poll resumes the future the task was created with.
AfterScancode(kind) ==
    IF kind = "read_once" THEN ReadOnceAfterScancode ELSE PrintKeypressesAfterScancode

\* poll_next, fast path: `if let Some(scancode) = queue.pop() { return Ready }`.
PollNextFirstPop ==
    /\ panic = NoPanic
    /\ \/ pc = "first_pop"
       \/ /\ pc = "poll"
          /\ tasks[CurrentId].kind \in StreamKinds
          /\ tasks[CurrentId].stream
    /\ LET r == ArrayQueuePop(SCANCODE_QUEUE.q)
           a == AfterScancode(tasks[CurrentId].kind) IN
         /\ SCANCODE_QUEUE' = [SCANCODE_QUEUE EXCEPT !.q = r.q]
         /\ IF r.some
            THEN /\ pc' = a.pc
                 /\ result' = a.result
                 /\ completed' = IF a.done THEN completed \cup task_id ELSE completed
                 /\ undelivered' = Returned(undelivered)
                 /\ ev' = Event("poll_next", r.val, "Ready")
            ELSE /\ pc' = "register"
                 /\ result' = result
                 /\ completed' = completed
                 /\ undelivered' = undelivered
                 /\ ev' = Event("poll_next", NoArg, "empty")
    /\ UNCHANGED << idVars, tasks, waker_cache, inserts, simpleVars, pollDebt, removals,
                    wakersMade, WAKER, wakesSinceRegister, task_queue, task_id, scancode,
                    handles,
                    interrupts_enabled, panic >>

\* Mutant: registering leaves the cell as it was.
AtomicWakerRegisterNoop(cell, waker) == cell

\* AtomicWaker::register: the cell holds the given waker, replacing any other.
AtomicWakerRegister(cell, waker) == waker

\* WAKER.register(&cx.waker()): the cell now holds this task's TaskWaker.
PollNextRegister ==
    /\ panic = NoPanic
    /\ pc = "register"
    /\ WAKER' = AtomicWakerRegister(WAKER, task_id)
    /\ pc' = "second_pop"
    /\ ev' = Event("register", CurrentId, "")
    /\ wakesSinceRegister' = 0
    /\ UNCHANGED << idVars, execVars, SCANCODE_QUEUE, undelivered, task_queue,
                    localVars, handles,
                    interrupts_enabled, panic >>

\* Mutant: poll_next returns Pending right after registering, without the second pop.
SecondPopSkipped(q) == [some |-> FALSE, val |-> NoArg, q |-> q]

\* Mutant: the second pop reads the oldest scancode and leaves it in the queue.
SecondPopKeepsEvent(q) ==
    IF q = << >> THEN [some |-> FALSE, val |-> NoArg, q |-> q]
                 ELSE [some |-> TRUE, val |-> Head(q), q |-> q]

\* The second `queue.pop()` of poll_next.
SecondPop(q) == ArrayQueuePop(q)

\* `match queue.pop() { Some(scancode) => .., None => Poll::Pending }`
PollNextSecondPop ==
    /\ panic = NoPanic
    /\ pc = "second_pop"
    /\ LET r == SecondPop(SCANCODE_QUEUE.q) IN
         /\ SCANCODE_QUEUE' = [SCANCODE_QUEUE EXCEPT !.q = r.q]
         /\ IF r.some
            THEN /\ scancode' = {r.val}
                 /\ result' = result
                 /\ pc' = "take"
                 /\ ev' = Event("second_pop", r.val, "some")
            ELSE /\ scancode' = scancode
                 /\ result' = "Pending"
                 /\ pc' = "match"
                 /\ ev' = Event("poll", CurrentId, "Pending")
         /\ pollDebt' = IF r.some THEN pollDebt
                                  ELSE [pollDebt EXCEPT ![CurrentId] = @ - 1]
    /\ UNCHANGED << idVars, tasks, waker_cache, completed, inserts, simpleVars, removals,
                    wakersMade, WAKER, undelivered, wakesSinceRegister, task_queue, task_id, handles,
                    interrupts_enabled, panic >>

\* Mutant: take leaves the registration in the cell.
AtomicWakerTakeNoop(cell) == cell

\* AtomicWaker::take: the cell is emptied.
AtomicWakerTake(cell) == {}

\* `WAKER.take(); Poll::Ready(Some(scancode))`, then the future goes on with
\* the scancode.
PollNextTake ==
    /\ panic = NoPanic
    /\ pc = "take"
    /\ WAKER' = AtomicWakerTake(WAKER)
    /\ scancode' = {}
    /\ undelivered' = Returned(undelivered)
    /\ LET a == AfterScancode(tasks[CurrentId].kind) IN
         /\ pc' = a.pc
         /\ result' = a.result
         /\ completed' = IF a.done THEN completed \cup task_id ELSE completed
    /\ ev' = Event("poll_next", CHOOSE c \in scancode : TRUE, "Ready")
    /\ UNCHANGED << idVars, tasks, waker_cache, inserts, simpleVars, pollDebt, removals,
                    wakersMade, SCANCODE_QUEUE, wakesSinceRegister, task_queue, task_id,
                    handles,
                    interrupts_enabled, panic >>

\* Mutant: on Ready the task is removed but its cached waker is kept.
MatchOutcomeKeepWaker(tbl, cache, id, r) ==
    IF r = "Ready" THEN [tasks |-> MapRemove(tbl, id), cache |-> cache]
                   ELSE [tasks |-> tbl, cache |-> cache]

\* Mutant: the arms of the match are swapped, removal happens on Pending.
MatchOutcomeSwappedArms(tbl, cache, id, r) ==
    IF r = "Pending" THEN [tasks |-> MapRemove(tbl, id), cache |-> cache \ {id}]
                     ELSE [tasks |-> tbl, cache |-> cache]

\* Mutant: on Ready only the cached waker is removed, the task stays in the table.
MatchOutcomeKeepTask(tbl, cache, id, r) ==
    IF r = "Ready" THEN [tasks |-> tbl, cache |-> cache \ {id}]
                   ELSE [tasks |-> tbl, cache |-> cache]

\* `match task.poll(..) { Ready(()) => { tasks.remove; waker_cache.remove } Pending => {} }`
MatchOutcome(tbl, cache, id, r) ==
    IF r = "Ready" THEN [tasks |-> MapRemove(tbl, id), cache |-> cache \ {id}]
                   ELSE [tasks |-> tbl, cache |-> cache]

RunReadyMatch ==
    /\ panic = NoPanic
    /\ pc = "match"
    /\ LET o == MatchOutcome(tasks, waker_cache, CurrentId, result) IN
         /\ tasks' = o.tasks
         /\ waker_cache' = o.cache
         /\ removals' = IF CurrentId \in (DOMAIN tasks) \ (DOMAIN o.tasks)
                        THEN [removals EXCEPT ![CurrentId] = @ + 1]
                        ELSE removals
    /\ task_id' = {}
    /\ result' = "none"
    /\ pc' = "run_ready_tasks"
    /\ ev' = Event("match", CurrentId, result)
    /\ UNCHANGED << idVars, completed, inserts, simpleVars, pollDebt, wakersMade, bridgeVars,
                    task_queue, scancode, handles, interrupts_enabled, panic >>

\* sleep_if_idle: `if self.task_queue.is_empty()`
SleepFirstCheck ==
    /\ panic = NoPanic
    /\ pc = "sleep_if_idle"
    /\ pc' = IF task_queue = << >> THEN "disable" ELSE "run_ready_tasks"
    /\ ev' = Event("is_empty", NoArg, IF task_queue = << >> THEN "empty" ELSE "work")
    /\ UNCHANGED << idVars, execVars, bridgeVars, localVars, task_queue, handles,
                    interrupts_enabled, panic >>

\* Mutant: the re-check is made without disabling interrupts.
SleepDisableNoop ==
    /\ panic = NoPanic
    /\ pc = "disable"
    /\ pc' = "recheck"
    /\ ev' = Event("disable", NoArg, "")
    /\ UNCHANGED << idVars, execVars, bridgeVars, localVars, task_queue, handles,
                    interrupts_enabled, panic >>

\* interrupts::disable()
SleepDisable ==
    /\ panic = NoPanic
    /\ pc = "disable"
    /\ interrupts_enabled' = FALSE
    /\ pc' = "recheck"
    /\ ev' = Event("disable", NoArg, "")
    /\ UNCHANGED << idVars, execVars, bridgeVars, localVars, task_queue, handles, panic >>

\* Mutant: the processor is halted without the queue being checked again.
SleepRecheckAlwaysHalt ==
    /\ panic = NoPanic
    /\ pc = "recheck"
    /\ pc' = "enable_and_hlt"
    /\ ev' = Event("recheck", NoArg, "empty")
    /\ UNCHANGED << idVars, execVars, bridgeVars, localVars, task_queue, handles,
                    interrupts_enabled, panic >>

\* the inner `if self.task_queue.is_empty()`
SleepRecheck ==
    /\ panic = NoPanic
    /\ pc = "recheck"
    /\ pc' = IF task_queue = << >> THEN "enable_and_hlt" ELSE "enable"
    /\ ev' = Event("recheck", NoArg, IF task_queue = << >> THEN "empty" ELSE "work")
    /\ UNCHANGED << idVars, execVars, bridgeVars, localVars, task_queue, handles,
                    interrupts_enabled, panic >>

\* enable_and_hlt(): `sti; hlt`, no interrupt is taken between the two.
SleepEnableAndHlt ==
    /\ panic = NoPanic
    /\ pc = "enable_and_hlt"
    /\ interrupts_enabled' = TRUE
    /\ pc' = "hlt"
    /\ ev' = Event("enable_and_hlt", NoArg, "")
    /\ UNCHANGED << idVars, execVars, bridgeVars, localVars, task_queue, handles, panic >>

\* Mutant: sleep_if_idle returns from the re-check without interrupts::enable().
SleepEnableForgotten ==
    /\ panic = NoPanic
    /\ pc = "enable"
    /\ pc' = "run_ready_tasks"
    /\ ev' = Event("enable", NoArg, "")
    /\ UNCHANGED << idVars, execVars, bridgeVars, localVars, task_queue, handles,
                    interrupts_enabled, panic >>

\* interrupts::enable(), then sleep_if_idle returns
SleepEnable ==
    /\ panic = NoPanic
    /\ pc = "enable"
    /\ interrupts_enabled' = TRUE
    /\ pc' = "run_ready_tasks"
    /\ ev' = Event("enable", NoArg, "")
    /\ UNCHANGED << idVars, execVars, bridgeVars, localVars, task_queue, handles, panic >>

Scheduler ==
    \/ RunReadyPop
    \/ \E r \in {"Ready", "Pending"} : PollFuture(r)
    \/ StreamNew
    \/ PollNextFirstPop
    \/ PollNextRegister
    \/ PollNextSecondPop
    \/ PollNextTake
    \/ RunReadyMatch
    \/ SleepFirstCheck
    \/ SleepDisable
    \/ SleepRecheck
    \/ SleepEnableAndHlt
    \/ SleepEnable

Next ==
    \/ \E k \in Kinds : TaskNew(k)
    \/ TaskDrop
    \/ Spawn
    \/ Run
    \/ \E sc \in Scancodes : KeyboardInterrupt(sc)
    \/ \E id \in Ids : ExternalWake(id)
    \/ TimerInterrupt
    \/ Scheduler

Spec == Init /\ [][Next]_vars

\* The same kernel with the futures of the two-task scenario: a future that is
\* polled to Ready or Pending and a future that reads one scancode.
ScenarioNext ==
    \/ \E k \in ScenarioKinds : TaskNew(k)
    \/ TaskDrop
    \/ Spawn
    \/ Run
    \/ \E sc \in Scancodes : KeyboardInterrupt(sc)
    \/ \E id \in Ids : ExternalWake(id)
    \/ TimerInterrupt
    \/ Scheduler

Scenario == Init /\ [][ScenarioNext]_vars

\* The scheduler context always makes progress while it is not halted:
\* run() is a loop on the only processor and interrupt handlers return.
FairSpec == Spec /\ WF_vars(Scheduler)

(***************************************************************************)
(* SimpleExecutor (src/src/task/simple_executor.rs): a VecDeque of tasks   *)
(* polled in turn with a waker that does nothing.  A task is [id, left]:   *)
(* id tells the tasks apart and left is the number of Pending returns its  *)
(* future makes before Ready (Forever: it never completes).                *)
(***************************************************************************)
QueueIds(q) == {q[i].id : i \in 1 .. Len(q)}

\* SimpleExecutor::spawn: task_queue.push_back(task).
SimpleSpawn(left) ==
    /\ simple_pc = "idle"
    /\ simple_spawned < MaxSimpleTasks
    /\ simple_spawned' = simple_spawned + 1
    /\ simple_task_queue' = Append(simple_task_queue,
                                   [id |-> simple_spawned + 1, left |-> left])
    /\ simple_ev' = Event("spawn", simple_spawned + 1, "")
    /\ UNCHANGED << kernelVars, simple_pc, simple_done, simple_ahead >>

\* SimpleExecutor::run is entered.
SimpleRun ==
    /\ simple_pc = "idle"
    /\ simple_pc' = "run"
    /\ simple_ev' = Event("run", NoArg, "")
    /\ UNCHANGED << kernelVars, simple_task_queue, simple_spawned, simple_done,
                    simple_ahead >>

\* task.poll(&mut context) of the task's future.
SimplePoll(task) ==
    IF task.left = 0 THEN [r |-> "Ready", task |-> task]
    ELSE IF task.left = Forever THEN [r |-> "Pending", task |-> task]
    ELSE [r |-> "Pending", task |-> [task EXCEPT !.left = @ - 1]]

\* Mutant: a task that returned Pending is put back at the head of the queue.
SimpleMatchPushFront(q, task, r) == IF r = "Ready" THEN q ELSE << task >> \o q

\* Mutant: a task that returned Pending is dropped like one that returned Ready.
SimpleMatchDropPending(q, task, r) == q

\* `match task.poll(..) { Ready(()) => {} Pending => task_queue.push_back(task) }`
SimpleMatch(q, task, r) == IF r = "Ready" THEN q ELSE Append(q, task)

\* One iteration of `while let Some(mut task) = self.task_queue.pop_front()`.
SimpleRunStep ==
    /\ simple_pc = "run"
    /\ simple_task_queue # << >>
    /\ LET task == Head(simple_task_queue)
           rest == Tail(simple_task_queue)
           p == SimplePoll(task) IN
         /\ simple_task_queue' = SimpleMatch(rest, p.task, p.r)
         /\ simple_done' = IF p.r = "Ready" THEN simple_done \cup {task.id}
                                            ELSE simple_done
         /\ simple_ahead' = [u \in SimpleIds |->
                                IF u = task.id
                                THEN IF p.r = "Pending" THEN QueueIds(rest) ELSE {}
                                ELSE simple_ahead[u] \ {task.id}]
         /\ simple_ev' = Event("poll", task.id, p.r)
    /\ UNCHANGED << kernelVars, simple_pc, simple_spawned >>

\* pop_front returned None: run returns.
SimpleRunReturn ==
    /\ simple_pc = "run"
    /\ simple_task_queue = << >>
    /\ simple_pc' = "idle"
    /\ simple_ev' = Event("return", NoArg, "")
    /\ UNCHANGED << kernelVars, simple_task_queue, simple_spawned, simple_done,
                    simple_ahead >>

\* A future's event source calls wake on its clone of the dummy waker: no_op.
DummyWake ==
    /\ simple_pc = "run"
    /\ simple_task_queue # << >>
    /\ simple_ev.op = "poll"
    /\ simple_ev' = Event("wake", NoArg, "")
    /\ UNCHANGED << kernelVars, simple_pc, simple_task_queue, simple_spawned,
                    simple_done, simple_ahead >>

SimpleNext ==
    \/ \E left \in Lefts : SimpleSpawn(left)
    \/ SimpleRun
    \/ SimpleRunStep
    \/ SimpleRunReturn
    \/ DummyWake

SimpleSpec == Init /\ [][SimpleNext]_vars

\* run is a loop on the only processor: while it is inside run it goes on.
FairSimpleSpec == SimpleSpec /\ WF_vars(SimpleRunStep \/ SimpleRunReturn)

(***************************************************************************)
(* Notions used by the properties.                                         *)
(***************************************************************************)
Range(q) == {q[i] : i \in 1 .. Len(q)}
Running == panic = NoPanic
PollPcs == {"poll", "first_pop", "register", "second_pop", "take"}
\* The scheduler is inside task.poll of task t.
Polling(t) == task_id = {t} /\ pc \in PollPcs
\* Task t reads the scancode stream: a stream future past ScancodeStream::new.
Consumer(t) == t \in DOMAIN tasks /\ tasks[t].kind \in StreamKinds /\ tasks[t].stream
\* The consumer is suspended: in the task table and not being polled.
Suspended(t) == Consumer(t) /\ ~Polling(t)

\* C1: no lost wake-up in the Event Bridge.  While the kernel runs, whenever
\* a scancode is queued and the consumer is suspended (its poll_next returned
\* Pending, whatever the interleaving of add_scancode with the two pops and the
\* registration), the consumer's TaskId is on the ready queue, so a later
\* poll_next pops the scancode.
C1_NoLostWakeup ==
    Running =>
        \A t \in Ids :
            (Suspended(t) /\ SCANCODE_QUEUE.q # << >>) => t \in Range(task_queue)

\* A scancode pushed after the first (empty) pop and before the registration
\* was caught by the second pop: the waker is still registered.
C1_Witness ==
    /\ pc = "take"
    /\ scancode # {}
    /\ WAKER = task_id

\* C2: idle-sleep race safety.  The processor is never halted, nor about to
\* halt, while the ready queue holds a TaskId: a wake that lands after the
\* scheduler saw the queue empty either is seen by the re-check made with
\* interrupts disabled, or arrives as the interrupt that ends the hlt.
C2_NeverHaltedWithWork ==
    pc \in {"enable_and_hlt", "hlt"} => task_queue = << >>

\* A wake landed between the first is_empty and interrupts::disable(): the
\* re-check saw it and sleep_if_idle returns without halting.
C2_Witness ==
    /\ pc = "enable"
    /\ task_queue # << >>
    /\ ev.op = "recheck"

\* C3: completion termination.  A task whose poll returned Ready is never
\* polled again, whatever wakes and stale ready-queue entries follow, and it
\* is out of the task table once the iteration that saw Ready has finished.
C3_CompletionTermination ==
    \A t \in completed :
        /\ ~Polling(t)
        /\ (t \in DOMAIN tasks) => (pc = "match" /\ task_id = {t} /\ result = "Ready")

\* A stale ready-queue entry of a completed task was popped and skipped.
C3_Witness ==
    /\ ev.op = "pop"
    /\ ev.out = "stale"
    /\ ev.arg \in completed
    /\ ev.arg \notin DOMAIN tasks

\* C5: TaskId uniqueness.  The identifiers returned by the first N calls of
\* TaskId::new are pairwise distinct, for every N up to the width of the
\* counter.
C5_TaskIdUnique ==
    \A i, j \in 1 .. Len(issued) :
        (i < j /\ j <= IdModulus) => issued[i] # issued[j]

\* As many identifiers were handed out as the counter has values.
C5_Witness == Len(issued) = IdModulus

\* C6: bridge saturation.  add_scancode on a full scancode queue drops the
\* new scancode: the queue, the waker cell and the ready queue are unchanged,
\* nothing panics and the interrupted context continues (a hlt is ended).
C6_BridgeSaturation ==
    [][ ( /\ ev'.op = "add_scancode"
          /\ SCANCODE_QUEUE.init
          /\ Len(SCANCODE_QUEUE.q) = ScancodeCap )
        => ( /\ SCANCODE_QUEUE' = SCANCODE_QUEUE
             /\ Len(SCANCODE_QUEUE'.q) = ScancodeCap
             /\ WAKER' = WAKER
             /\ task_queue' = task_queue
             /\ panic' = NoPanic
             /\ pc' = IF pc = "hlt" THEN "run_ready_tasks" ELSE pc
             /\ UNCHANGED << tasks, waker_cache, interrupts_enabled >> ) ]_vars

\* A scancode was dropped on a full queue while a waker was registered.
C6_Witness ==
    /\ ev.op = "add_scancode"
    /\ ev.out = "full"
    /\ Len(SCANCODE_QUEUE.q) = ScancodeCap
    /\ WAKER # {}
    /\ panic = NoPanic

\* C7: ready-queue saturation is fatal.  A wake (of a Waker clone, or of the
\* waker registered in the bridge after a successful add_scancode) or a spawn
\* that pushes a TaskId on a full ready queue panics; the queue is unchanged.
C7_ReadyQueueSaturationFatal ==
    [][ ( /\ Running
          /\ Len(task_queue) = TaskQueueCap
          /\ \/ ev'.op = "wake"
             \/ ev'.op = "spawn"
             \/ /\ ev'.op = "add_scancode"
                /\ SCANCODE_QUEUE.init
                /\ Len(SCANCODE_QUEUE.q) < ScancodeCap
                /\ WAKER # {} )
        => ( /\ panic' # NoPanic
             /\ (ev'.op # "spawn") => panic' = "task_queue full"
             /\ (ev'.op = "spawn" /\ ev'.arg \notin DOMAIN tasks) => panic' = "queue full"
             /\ task_queue' = task_queue ) ]_vars

\* The wake of the bridge's registered waker found the ready queue full.
C7_Witness ==
    /\ panic = "task_queue full"
    /\ ev.op = "add_scancode"
    /\ Len(task_queue) = TaskQueueCap

\* C8: spawn postcondition.  A spawn of a task whose TaskId is not in the task
\* table, with room in the ready queue, adds exactly that task to the table,
\* appends its TaskId at the tail of the ready queue, leaves the waker cache
\* unchanged, does not panic and does not poll.
C8_SpawnPostcondition ==
    [][ ( /\ ev'.op = "spawn"
          /\ \A task \in held : task.id \notin DOMAIN tasks
          /\ Len(task_queue) < TaskQueueCap )
        => ( \A task \in held :
               /\ DOMAIN tasks' = (DOMAIN tasks) \cup {task.id}
               /\ tasks'[task.id] = [kind |-> task.kind, stream |-> FALSE]
               /\ \A k \in DOMAIN tasks : tasks'[k] = tasks[k]
               /\ task_queue' = task_queue \o << task.id >>
               /\ waker_cache' = waker_cache
               /\ panic' = NoPanic
               /\ UNCHANGED << pc, task_id, result, completed, handles >> ) ]_vars

\* A second task was spawned behind the first.
C8_Witness ==
    /\ ev.op = "spawn"
    /\ panic = NoPanic
    /\ Len(task_queue) = 2
    /\ task_queue[2] = ev.arg
    /\ DOMAIN tasks = Range(task_queue)

\* C9: a TaskId is never inserted twice.  Spawning a task whose TaskId is a
\* key of the task table panics, and while the kernel runs no TaskId has been
\* inserted into the task table more than once.
C9_NoDoubleInsert ==
    /\ [](Running => \A id \in Ids : inserts[id] <= 1)
    /\ [][ (ev'.op = "spawn" /\ \E task \in held : task.id \in DOMAIN tasks)
           => panic' = "task with same ID already in tasks" ]_vars

\* NEXT_ID wrapped around onto the TaskId of a spawned task.
C9_Witness ==
    /\ panic = "task with same ID already in tasks"
    /\ ev.op = "spawn"
    /\ inserts[ev.arg] = 2

\* C10: a stale ready-queue entry is a silent no-op.  When run_ready_tasks
\* pops a TaskId that is not in the task table, it polls nothing, creates no
\* Wake Handle, leaves task table and waker cache unchanged, does not panic
\* and goes on with the next entry.
C10_StaleEntryNoOp ==
    [][ ( /\ ev'.op = "pop"
          /\ task_queue # << >>
          /\ Head(task_queue) \notin DOMAIN tasks )
        => ( /\ task_queue' = Tail(task_queue)
             /\ tasks' = tasks
             /\ waker_cache' = waker_cache
             /\ panic' = NoPanic
             /\ pc' = "run_ready_tasks"
             /\ task_id' = {}
             /\ UNCHANGED << result, completed, handles, SCANCODE_QUEUE, WAKER >> ) ]_vars

\* The stale entry of a completed task was popped while another entry waits.
C10_Witness ==
    /\ ev.op = "pop"
    /\ ev.out = "stale"
    /\ ev.arg \notin DOMAIN tasks
    /\ task_queue # << >>
    /\ pc = "run_ready_tasks"

\* A wake handle of task t, whose last poll returned Pending, was just invoked
\* and the push succeeded: by an event source holding a Waker clone, or by
\* add_scancode for the waker the suspended consumer registered.
Woken(t) ==
    /\ Running
    /\ t \in DOMAIN tasks
    /\ t \notin completed
    /\ ~Polling(t)
    /\ \/ ev.op = "wake" /\ ev.arg = t
       \/ ev.op = "add_scancode" /\ ev.out = "woken" /\ Consumer(t)

\* C4: wake leads to poll.  If every poll returns and the kernel does not
\* panic, a task woken after it returned Pending is eventually polled again,
\* or has left the task table in between.
C4_WakeLeadsToPoll ==
    \A t \in Ids :
        ([]<>(pc \notin PollPcs))
            => (Woken(t) ~> (Polling(t) \/ t \notin DOMAIN tasks \/ ~Running))

\* A task that returned Pending and was woken is being polled again.
C4_Witness ==
    /\ pc = "poll"
    /\ task_id \subseteq handles
    /\ task_id # {}
    /\ ev.op = "pop"


Reader(t) == t \in DOMAIN tasks /\ tasks[t].kind = "read_once"

\* C12: the two-task scenario (A: Ready on its first poll, B: one read from the
\* scancode stream, then Ready), as the contract of each of its steps.
\* (1) A spawned task is in the task table exactly until the match that follows
\*     its Ready: afterwards A is absent from the table and the waker cache,
\*     while B, not yet Ready, is present.
\* (2) While B is suspended before its read and is not on the ready queue, no
\*     scancode is queued and the bridge holds B's waker.
\* (3) add_scancode(e) in that state queues exactly e, puts B on the ready
\*     queue and empties the waker cell.
\* (4) The poll_next of B that returns Ready returns the oldest queued
\*     scancode, and B returns Ready with it.
\* (5) The match on B's Ready removes B from the task table and the waker cache.
C12_TwoTaskScenario ==
    /\ [](\A t \in Ids :
            inserts[t] >= 1 =>
              IF t \in completed /\ task_id # {t}
              THEN t \notin DOMAIN tasks /\ t \notin waker_cache
              ELSE t \in DOMAIN tasks)
    /\ [](\A b \in Ids :
            ( /\ Running
              /\ Reader(b) /\ Suspended(b)
              /\ b \notin completed
              /\ b \notin Range(task_queue) )
            => WAKER = {b} /\ SCANCODE_QUEUE.q = << >>)
    /\ [][ \A b \in Ids :
             ( /\ ev'.op = "add_scancode"
               /\ Reader(b) /\ Suspended(b)
               /\ WAKER = {b}
               /\ SCANCODE_QUEUE.q = << >>
               /\ Len(task_queue) < TaskQueueCap )
             => ( /\ SCANCODE_QUEUE'.q = << ev'.arg >>
                  /\ task_queue' = Append(task_queue, b)
                  /\ WAKER' = {}
                  /\ panic' = NoPanic ) ]_vars
    /\ [][ ( /\ ev'.op = "poll_next" /\ ev'.out = "Ready"
             /\ Reader(CurrentId) )
           => ( /\ ev'.arg = IF pc = "take" THEN CHOOSE c \in scancode : TRUE
                                            ELSE Head(SCANCODE_QUEUE.q)
                /\ result' = "Ready"
                /\ pc' = "match"
                /\ task_id' = task_id
                /\ CurrentId \in completed' ) ]_vars
    /\ [][ ( ev'.op = "match" /\ result = "Ready" )
           => ( /\ CurrentId \in DOMAIN tasks
                /\ CurrentId \notin DOMAIN tasks'
                /\ CurrentId \notin waker_cache' ) ]_vars

\* B has just read the scancode it was woken for and returned Ready, after A
\* completed and left the task table; nothing else is queued.
C12_Witness ==
    /\ Running
    /\ ev.op = "poll_next" /\ ev.out = "Ready" /\ ev.arg \in Scancodes
    /\ pc = "match" /\ result = "Ready"
    /\ Reader(CurrentId)
    /\ CurrentId \in waker_cache
    /\ \E a \in completed : a # CurrentId /\ a \notin DOMAIN tasks /\ a \in handles
    /\ task_queue = << >>
    /\ SCANCODE_QUEUE.q = << >>
    /\ WAKER = {}

\* C13: one-shot bridge construction.  The first ScancodeStream::new installs
\* the empty scancode queue and does not panic; a call made when the queue is
\* installed panics and leaves the queue and its contents as they were; the
\* queue, once installed, stays installed; and while the kernel runs at most
\* one task owns a ScancodeStream.
C13_OneShotConstruction ==
    /\ [][ ev'.op = "ScancodeStream::new"
           => IF SCANCODE_QUEUE.init
              THEN /\ panic' = "ScancodeStream::new should only be called once"
                   /\ SCANCODE_QUEUE' = SCANCODE_QUEUE
              ELSE /\ panic' = NoPanic
                   /\ SCANCODE_QUEUE' = [init |-> TRUE, q |-> << >>] ]_vars
    /\ [][ SCANCODE_QUEUE.init => SCANCODE_QUEUE'.init ]_vars
    /\ [](Running => Cardinality({t \in DOMAIN tasks : tasks[t].stream}) <= 1)

\* A second ScancodeStream::new panicked while scancodes were queued for the
\* first stream; they are still queued.
C13_Witness ==
    /\ panic = "ScancodeStream::new should only be called once"
    /\ ev.op = "ScancodeStream::new"
    /\ SCANCODE_QUEUE.init
    /\ SCANCODE_QUEUE.q # << >>

\* C14: ready-queue bound.  The ready queue never holds more TaskIds than its
\* capacity, and a push by spawn or by wake completes within its own step:
\* with room the TaskId is appended and nothing panics, without room the queue
\* is unchanged and the step is fatal.  (A spawn of a TaskId already in the
\* task table panics before it pushes.)
C14_ReadyQueueBound ==
    /\ [](Len(task_queue) <= TaskQueueCap)
    /\ [][ ( /\ ev'.op \in {"spawn", "wake"}
             /\ ~(ev'.op = "spawn" /\ ev'.arg \in DOMAIN tasks) )
           => IF Len(task_queue) < TaskQueueCap
              THEN task_queue' = Append(task_queue, ev'.arg) /\ panic' = NoPanic
              ELSE task_queue' = task_queue
                   /\ panic' \in {"queue full", "task_queue full"} ]_vars

\* A wake has just filled the ready queue to its capacity.
C14_Witness ==
    /\ Running
    /\ ev.op = "wake"
    /\ Len(task_queue) = TaskQueueCap

\* C15: ready-queue membership.  Every TaskId on the ready queue was inserted
\* into the task table by spawn, and is either still a key of the table or the
\* id of a task that returned Ready.
C15_ReadyQueueMembership ==
    \A id \in Range(task_queue) :
        /\ inserts[id] >= 1
        /\ id \in DOMAIN tasks \/ id \in completed

\* The ready queue holds an entry of a task that completed and left the table.
C15_Witness ==
    /\ Running
    /\ \E id \in Range(task_queue) :
           id \notin DOMAIN tasks /\ id \in completed /\ removals[id] = 1

IdlePcs == {"sleep_if_idle", "disable", "recheck", "enable_and_hlt", "enable", "hlt"}

\* C16: run() never returns.  Once run is entered and while nothing is fatal,
\* the scheduler always has a next step, or is halted with interrupts enabled
\* so that the next interrupt resumes it; it never leaves the loop;
\* run_ready_tasks hands over to sleep_if_idle only by a pop that found the
\* ready queue empty, and sleep_if_idle hands back to run_ready_tasks.
C16_RunNeverReturns ==
    /\ [](( Running /\ pc # "boot" )
          => IF pc = "hlt" THEN interrupts_enabled /\ ENABLED TimerInterrupt
                           ELSE ENABLED Scheduler)
    /\ [][ pc # "boot" => pc' # "boot" ]_vars
    /\ [][ ( pc \notin IdlePcs /\ pc' \in IdlePcs )
           => ( /\ pc = "run_ready_tasks"
                /\ pc' = "sleep_if_idle"
                /\ task_queue = << >>
                /\ ev'.op = "pop" /\ ev'.out = "empty" ) ]_vars
    /\ [][ ( pc \in IdlePcs /\ pc' \notin IdlePcs ) => pc' = "run_ready_tasks" ]_vars

\* With the task table empty after its tasks completed, the loop has halted
\* and has been resumed by a timer interrupt into the next run_ready_tasks.
C16_Witness ==
    /\ Running
    /\ DOMAIN tasks = {}
    /\ completed # {}
    /\ ev.op = "timer"
    /\ pc = "run_ready_tasks"

\* C17: producer wake rule.  add_scancode wakes the registered waker exactly
\* when its push onto the scancode queue succeeded.  After a successful push
\* the waker cell is empty; if a waker was registered its TaskId is appended to
\* the ready queue (or, the ready queue being full, the wake is fatal), and if
\* none was registered the ready queue is unchanged.  When the scancode is
\* dropped (queue full or not installed) the scancode queue, the registration
\* and the ready queue are unchanged.
C17_ProducerWakeRule ==
    [][ ev'.op = "add_scancode"
        => IF SCANCODE_QUEUE.init /\ Len(SCANCODE_QUEUE.q) < ScancodeCap
           THEN /\ SCANCODE_QUEUE' = [SCANCODE_QUEUE EXCEPT !.q = Append(@, ev'.arg)]
                /\ WAKER' = {}
                /\ IF WAKER = {}
                   THEN task_queue' = task_queue /\ panic' = NoPanic
                   ELSE IF Len(task_queue) < TaskQueueCap
                        THEN /\ task_queue' = Append(task_queue, CHOOSE t \in WAKER : TRUE)
                             /\ panic' = NoPanic
                        ELSE /\ task_queue' = task_queue
                             /\ panic' = "task_queue full"
           ELSE /\ SCANCODE_QUEUE' = SCANCODE_QUEUE
                /\ WAKER' = WAKER
                /\ task_queue' = task_queue
                /\ panic' = NoPanic ]_vars

\* add_scancode has queued a scancode and woken the suspended consumer: the
\* consumer's TaskId is the newest entry of the ready queue and the cell is empty.
C17_Witness ==
    /\ Running
    /\ ev.op = "add_scancode" /\ ev.out = "woken"
    /\ WAKER = {}
    /\ task_queue # << >>
    /\ Suspended(task_queue[Len(task_queue)])
    /\ SCANCODE_QUEUE.q # << >>
    /\ SCANCODE_QUEUE.q[Len(SCANCODE_QUEUE.q)] = ev.arg

\* C18: consumer step 3.  poll_next reaches its registration only after a first
\* pop that found the queue empty, and then pops a second time; when the second
\* pop yields a scancode the next step of poll_next is WAKER.take(), and the
\* step that returns Ready with that scancode leaves the waker cell empty.  No
\* poll_next returns Ready with a registration in the cell.
C18_ConsumerStep3 ==
    /\ [][ ( pc' = "register" /\ pc # "register" )
           => SCANCODE_QUEUE.q = << >> /\ pc \in {"poll", "first_pop"} ]_vars
    /\ [][ ( pc = "register" /\ pc' # "register" )
           => pc' = "second_pop" /\ WAKER' = task_id ]_vars
    /\ [][ ( pc = "second_pop" /\ pc' # "second_pop" /\ SCANCODE_QUEUE.q # << >> )
           => ( /\ pc' = "take"
                /\ scancode' = {Head(SCANCODE_QUEUE.q)}
                /\ SCANCODE_QUEUE'.q = Tail(SCANCODE_QUEUE.q) ) ]_vars
    /\ [][ ( pc = "take" /\ pc' # "take" )
           => ( /\ ev'.op = "poll_next" /\ ev'.out = "Ready"
                /\ ev'.arg \in scancode
                /\ WAKER' = {} ) ]_vars
    /\ [][ ( ev'.op = "poll_next" /\ ev'.out = "Ready" ) => WAKER' = {} ]_vars

\* The second pop has just yielded a scancode while the registration made by
\* this poll_next is still in the cell: WAKER.take() is what clears it.
C18_Witness ==
    /\ Running
    /\ pc = "take"
    /\ ev.op = "second_pop" /\ ev.out = "some"
    /\ scancode = {ev.arg}
    /\ WAKER = task_id
    /\ task_id # {}

\* C19: consumer step 4.  poll_next returns Pending only from its second pop,
\* which is reached only after the first pop found the queue empty, and only
\* when the second pop finds it empty too; at that return the cell holds the
\* caller's waker.  While the consumer stays suspended afterwards, its waker is
\* in the cell or its TaskId is on the ready queue, and a successful
\* add_scancode that finds the waker in the cell puts the consumer's TaskId on
\* the ready queue.
C19_ConsumerStep4 ==
    /\ [][ ( /\ ev'.op = "poll" /\ ev'.out = "Pending"
             /\ tasks[CurrentId].kind \in StreamKinds )
           => ( /\ pc = "second_pop"
                /\ SCANCODE_QUEUE.q = << >>
                /\ SCANCODE_QUEUE'.q = << >>
                /\ WAKER' = task_id
                /\ result' = "Pending" ) ]_vars
    /\ [][ ( pc' = "second_pop" /\ pc # "second_pop" ) => pc = "register" ]_vars
    /\ [][ ( pc' = "register" /\ pc # "register" ) => SCANCODE_QUEUE.q = << >> ]_vars
    /\ [](\A t \in Ids :
            ( Running /\ Suspended(t) /\ t \notin completed )
            => WAKER = {t} \/ t \in Range(task_queue))
    /\ [][ \A t \in Ids :
             ( /\ ev'.op = "add_scancode" /\ ev'.out = "woken"
               /\ Suspended(t)
               /\ WAKER = {t} )
             => ( /\ panic' = NoPanic => task_queue' = Append(task_queue, t)
                  /\ panic' # NoPanic => Len(task_queue) = TaskQueueCap ) ]_vars

\* poll_next has just returned Pending: both pops found the queue empty and
\* the consumer's waker is registered.
C19_Witness ==
    /\ Running
    /\ ev.op = "poll" /\ ev.out = "Pending"
    /\ pc = "match" /\ result = "Pending"
    /\ Consumer(CurrentId)
    /\ WAKER = task_id
    /\ SCANCODE_QUEUE.q = << >>
    /\ CurrentId \notin Range(task_queue)

\* Task t has been polled at least once.
Polled(t) ==
    \/ t \in handles
    \/ t \in completed
    \/ t \in DOMAIN tasks /\ tasks[t].stream
    \/ task_id = {t}

\* C20: wake-handle reuse.  TaskWaker::new is called at most once per TaskId,
\* and a TaskId in the waker cache had exactly one made; the call happens at
\* the pop that begins the task's first poll; the pop that begins a later poll
\* finds the handle in the cache and makes none; and a task leaves the task
\* table in the same step as its handle leaves the waker cache, which is the
\* match on Ready.
C20_WakeHandleReuse ==
    /\ [](\A t \in Ids :
            /\ wakersMade[t] <= 1
            /\ (t \in waker_cache => wakersMade[t] = 1 /\ t \in DOMAIN tasks))
    /\ [][ \A t \in Ids :
             wakersMade'[t] # wakersMade[t]
             => ( /\ ev'.op = "pop" /\ ev'.arg = t /\ ev'.out = "task"
                  /\ ~Polled(t)
                  /\ t \notin waker_cache
                  /\ t \in waker_cache' ) ]_vars
    /\ [][ \A t \in Ids :
             ( ev'.op = "pop" /\ ev'.arg = t /\ ev'.out = "task" /\ Polled(t) )
             => ( /\ t \in waker_cache
                  /\ waker_cache' = waker_cache
                  /\ wakersMade' = wakersMade ) ]_vars
    /\ [][ \A t \in Ids :
             ( \/ t \in DOMAIN tasks /\ t \notin DOMAIN tasks'
               \/ t \in waker_cache /\ t \notin waker_cache' )
             => ( /\ t \in DOMAIN tasks /\ t \notin DOMAIN tasks'
                  /\ t \in waker_cache /\ t \notin waker_cache'
                  /\ ev'.op = "match" /\ ev'.arg = t
                  /\ result = "Ready" ) ]_vars

\* A task that returned Pending before is about to be polled again with the
\* handle made at its first poll.
C20_Witness ==
    /\ Running
    /\ ev.op = "pop" /\ ev.out = "task"
    /\ pc = "poll"
    /\ ev.arg \in handles
    /\ ev.arg \in waker_cache
    /\ wakersMade[ev.arg] = 1

RunPcs == {"run_ready_tasks", "match"} \cup PollPcs
InterruptOps == {"add_scancode", "wake", "timer"}

\* C21: interrupt-context frame.  A step made in interrupt context (add_scancode
\* with the wake it triggers, a wake through a handle, the timer) leaves the
\* task table, the waker cache and every other variable of the scheduler
\* context unchanged: it changes at most the scancode queue, the waker cell and
\* the ready queue (and whether the kernel has panicked or leaves a hlt).  The
\* task table and the waker cache change only in a spawn step or in a step of
\* run_ready_tasks made by the scheduler.
C21_InterruptFrame ==
    /\ [][ ev'.op \in InterruptOps
           => UNCHANGED << tasks, waker_cache, NEXT_ID, issued, held, completed,
                           inserts, pollDebt, removals, wakersMade, task_id,
                           scancode, result, handles, interrupts_enabled >> ]_vars
    /\ [][ ( tasks' # tasks \/ waker_cache' # waker_cache )
           => \/ ev'.op = "spawn" /\ pc = "boot"
              \/ ev'.op \notin InterruptOps /\ pc \in RunPcs ]_vars

\* An add_scancode interrupt has woken the consumer in the middle of its poll,
\* between the registration and the second pop, with a task in the table and
\* its handle in the cache.
C21_Witness ==
    /\ Running
    /\ ev.op = "add_scancode" /\ ev.out = "woken"
    /\ pc = "second_pop"
    /\ task_id \subseteq DOMAIN tasks
    /\ task_id \subseteq waker_cache
    /\ task_id # {}

\* The scancode poll_next has popped and not yet returned (between its second
\* pop and the return of Ready).
InFlight == IF pc = "take" THEN << CHOOSE c \in scancode : TRUE >> ELSE << >>

\* C22: event FIFO, exactly once.  undelivered records, in push order, the
\* scancodes whose add_scancode push succeeded and that no poll_next has
\* returned yet.  At every moment it is the scancode poll_next holds, if any,
\* followed by the contents of the scancode queue; every poll_next that
\* returns Ready returns the oldest undelivered scancode and only that one
\* leaves the record; and an add_scancode adds its scancode to the scancode
\* queue exactly when it was accepted.  So the scancodes returned are the
\* accepted ones, each once, in push order, and a dropped one is never returned.
C22_EventFifo ==
    /\ [](undelivered = InFlight \o SCANCODE_QUEUE.q)
    /\ [][ ( ev'.op = "poll_next" /\ ev'.out = "Ready" )
           => ( /\ undelivered # << >>
                /\ ev'.arg = Head(undelivered)
                /\ undelivered' = Tail(undelivered) ) ]_vars
    /\ [][ ev'.op = "add_scancode"
           => IF SCANCODE_QUEUE.init /\ Len(SCANCODE_QUEUE.q) < ScancodeCap
              THEN undelivered' = Append(undelivered, ev'.arg)
              ELSE undelivered' = undelivered /\ SCANCODE_QUEUE' = SCANCODE_QUEUE ]_vars
    /\ [][ undelivered' # undelivered
           => ev'.op \in {"add_scancode", "poll_next"} ]_vars

\* Two different scancodes were accepted and poll_next has just returned the
\* older of the two; the newer one is still queued.
C22_Witness ==
    /\ Running
    /\ ev.op = "poll_next" /\ ev.out = "Ready"
    /\ undelivered # << >>
    /\ Head(undelivered) # ev.arg
    /\ SCANCODE_QUEUE.q = undelivered

C24_SimpleExecutorOrder ==
    /\ [][ simple_ev'.op = "poll"
           => ( /\ simple_task_queue # << >>
                /\ simple_ev'.arg = Head(simple_task_queue).id
                /\ simple_ev'.arg \notin simple_done
                /\ simple_ahead[simple_ev'.arg] = {}
                /\ IF simple_ev'.out = "Pending"
                   THEN /\ Len(simple_task_queue') = Len(simple_task_queue)
                        /\ SubSeq(simple_task_queue', 1, Len(simple_task_queue) - 1)
                               = Tail(simple_task_queue)
                        /\ simple_task_queue'[Len(simple_task_queue)].id = simple_ev'.arg
                   ELSE /\ simple_task_queue' = Tail(simple_task_queue)
                        /\ simple_ev'.arg \in simple_done' ) ]_vars
    /\ [](QueueIds(simple_task_queue) \cap simple_done = {})
    /\ [](\A i, j \in 1 .. Len(simple_task_queue) :
              i # j => simple_task_queue[i].id # simple_task_queue[j].id)

\* A task has returned Pending and was re-appended behind another task that is
\* now at the head; the task spawned first has already returned Ready.
C24_Witness ==
    /\ simple_ev.op = "poll" /\ simple_ev.out = "Pending"
    /\ Len(simple_task_queue) = 2
    /\ simple_task_queue[2].id = simple_ev.arg
    /\ simple_ahead[simple_ev.arg] = {simple_task_queue[1].id}
    /\ simple_ahead[simple_task_queue[1].id] = {}
    /\ 1 \in simple_done

\* Some task in the queue of the SimpleExecutor never completes.
SimpleStuck == \E i \in 1 .. Len(simple_task_queue) : simple_task_queue[i].left = Forever

\* C25: SimpleExecutor termination.  run returns only from an empty queue, and
\* then every spawned task has returned Ready; with an empty queue inside run
\* the return is the only step, with a non-empty queue the return is not
\* possible.  If no queued task returns Pending forever, run returns; if one
\* does, run never returns.  A wake through the dummy waker changes nothing.
C25_SimpleExecutorTermination ==
    /\ [][ ( simple_pc = "run" /\ simple_pc' = "idle" )
           => ( /\ simple_task_queue = << >>
                /\ simple_done = 1 .. simple_spawned
                /\ simple_ev'.op = "return" ) ]_vars
    /\ [](simple_pc = "run"
          => IF simple_task_queue = << >>
             THEN ENABLED SimpleRunReturn /\ ~ENABLED SimpleRunStep
             ELSE ENABLED SimpleRunStep /\ ~ENABLED SimpleRunReturn)
    /\ ( simple_pc = "run" /\ ~SimpleStuck ) ~> ( simple_pc = "idle" )
    /\ []( ( simple_pc = "run" /\ SimpleStuck ) => [](simple_pc = "run") )
    /\ [][ simple_ev'.op = "wake"
           => UNCHANGED << simple_pc, simple_task_queue, simple_done >> ]_vars

\* run has returned with the queue empty after every one of the spawned tasks
\* returned Ready.
C25_Witness ==
    /\ simple_pc = "idle"
    /\ simple_ev.op = "return"
    /\ simple_spawned = MaxSimpleTasks
    /\ simple_done = SimpleIds
    /\ simple_task_queue = << >>

\* C26: a suspended consumer is always reachable by a wake.  While the kernel
\* runs, for every task of the task table that owns (or will own) the scancode
\* stream, has not returned Ready and is not in the middle of being polled: if
\* a scancode is queued, or an accepted scancode has not been returned yet,
\* then the task's TaskId is on the ready queue.
C26_SuspendedConsumerQueued ==
    Running =>
        \A t \in DOMAIN tasks :
            ( /\ tasks[t].kind \in StreamKinds
              /\ t \notin completed
              /\ ~Polling(t)
              /\ SCANCODE_QUEUE.q # << >> \/ undelivered # << >> )
            => t \in Range(task_queue)

\* The scheduler has left run_ready_tasks and is about to go idle while the
\* consumer is suspended, a scancode is queued and the consumer's TaskId waits
\* on the ready queue.
C26_Witness ==
    /\ Running
    /\ pc \in IdlePcs
    /\ SCANCODE_QUEUE.q # << >>
    /\ \E t \in Ids : Suspended(t) /\ task_queue = << t >>
    /\ WAKER = {}

\* The only task ever created and spawned is one print_keypresses task, and no
\* waker clone exists outside the bridge: every wake comes from add_scancode.
BridgeOnly ==
    /\ pc # "boot"
    /\ Len(issued) = 1
    /\ DOMAIN tasks = {issued[1]}
    /\ tasks[issued[1]].kind = "print_keypresses"
    /\ handles = {}

\* C27 as stated: with a single consumer task on the executor and wakes coming
\* only from add_scancode, the ready queue never reaches its capacity and the
\* fatal "task_queue full" never happens.
C27_AsStated ==
    BridgeOnly => Len(task_queue) < TaskQueueCap /\ panic # "task_queue full"

\* The state C27 excludes: within one poll of the single consumer task, each
\* add_scancode that landed between a registration and the take that follows
\* left one more entry of the task on the ready queue; the queue is full of
\* them and the wake of one more add_scancode was fatal.
C27_Witness ==
    /\ BridgeOnly
    /\ panic = "task_queue full"
    /\ ev.op = "add_scancode"
    /\ pc \in PollPcs
    /\ Len(task_queue) = TaskQueueCap
    /\ Range(task_queue) = task_id
    /\ pollDebt[CurrentId] = 1

\* C28: the waker cache never outlives its task.  Every key of waker_cache is
\* a key of tasks, and belongs to a task whose poll has been begun at least
\* once and for which a handle was made; a task that was spawned and not yet
\* polled has no entry.
C28_WakerCacheWithinTasks ==
    /\ waker_cache \subseteq DOMAIN tasks
    /\ \A t \in waker_cache : Polled(t) /\ wakersMade[t] >= 1
    /\ \A t \in DOMAIN tasks : wakersMade[t] = 0 => t \notin waker_cache

\* One task has returned Pending and is suspended with its handle cached,
\* another one was spawned and has not been polled yet: it has no entry.
C28_Witness ==
    /\ Running
    /\ pc = "run_ready_tasks"
    /\ ev.op = "match" /\ ev.out = "Pending"
    /\ waker_cache = {ev.arg}
    /\ \E u \in (DOMAIN tasks) \ waker_cache : wakersMade[u] = 0 /\ task_queue = << u >>

\* Interrupts are disabled only between interrupts::disable() and the enable
\* that ends sleep_if_idle.
DisabledPcs == {"recheck", "enable_and_hlt", "enable"}

\* C29: sleep_if_idle restores interrupt delivery on every path.  Interrupts
\* are enabled when sleep_if_idle is entered and are disabled only between
\* interrupts::disable() and the enable that follows the re-check, so no task is
\* polled and the processor is never halted with interrupts disabled.  When
\* the first check finds work, sleep_if_idle returns without having disabled
\* them; when the re-check finds work, it returns with them enabled and
\* without halting; when the re-check finds the queue empty, they are enabled
\* in the very step that halts.
C29_SleepRestoresInterrupts ==
    /\ [](~interrupts_enabled => pc \in DisabledPcs)
    /\ [](pc \in RunPcs \cup {"sleep_if_idle", "hlt"} => interrupts_enabled)
    /\ [][ /\ pc = "sleep_if_idle" /\ pc' = "run_ready_tasks"
              => interrupts_enabled /\ interrupts_enabled' /\ ev'.out = "work"
           /\ pc = "recheck" /\ task_queue # << >>
              => pc' \in {"recheck", "enable"}
           /\ pc = "enable" /\ pc' # "enable"
              => pc' = "run_ready_tasks" /\ interrupts_enabled'
           /\ pc = "recheck" /\ task_queue = << >>
              => pc' \in {"recheck", "enable_and_hlt"}
           /\ pc = "enable_and_hlt" /\ pc' # "enable_and_hlt"
              => pc' = "hlt" /\ interrupts_enabled' /\ ~interrupts_enabled
           /\ pc \in IdlePcs /\ pc' \in RunPcs => interrupts_enabled' ]_vars

\* sleep_if_idle has just returned through the re-check that found work: a
\* wake landed after the first is_empty, interrupts were disabled for the
\* re-check, and they are enabled again as the scheduler goes back to polling.
C29_Witness ==
    /\ Running
    /\ pc = "run_ready_tasks"
    /\ ev.op = "enable"
    /\ interrupts_enabled
    /\ task_queue # << >>

\* C30: events pushed before the bridge exists are dropped harmlessly.  While
\* ScancodeStream::new has not run there is no scancode queue, no registered
\* waker and no undelivered event.  An add_scancode made then changes neither
\* the scancode queue (none is created), nor the waker cell, nor the ready
\* queue, records no event for delivery, does not panic and returns to the
\* interrupted code (a halted processor resumes after its hlt, as after any
\* interrupt).  ScancodeStream::new installs an empty
\* queue, so nothing pushed before it is there for the consumer to read.
C30_EarlyEventsDropped ==
    /\ [](~SCANCODE_QUEUE.init
            => SCANCODE_QUEUE.q = << >> /\ WAKER = {} /\ undelivered = << >>)
    /\ [][ /\ ev'.op = "add_scancode" /\ ev' # ev /\ ~SCANCODE_QUEUE.init
              => /\ ev'.out = "uninitialized"
                 /\ SCANCODE_QUEUE' = SCANCODE_QUEUE
                 /\ WAKER' = WAKER
                 /\ task_queue' = task_queue
                 /\ undelivered' = undelivered
                 /\ panic' = NoPanic
                 /\ pc' = IF pc = "hlt" THEN "run_ready_tasks" ELSE pc
           /\ ev'.op = "add_scancode" /\ ev'.out = "uninitialized"
              => ~SCANCODE_QUEUE.init
           /\ ~SCANCODE_QUEUE.init /\ SCANCODE_QUEUE'.init
              => /\ ev'.op = "ScancodeStream::new"
                 /\ SCANCODE_QUEUE'.q = << >>
                 /\ undelivered' = << >>
                 /\ pc' = "first_pop" ]_vars

\* A key was pressed while the consumer's first poll was about to call
\* ScancodeStream::new: the event is discarded, the ready queue still holds
\* the other spawned task, and the consumer goes on to create the stream.
C30_Witness ==
    /\ Running
    /\ ev.op = "add_scancode" /\ ev.out = "uninitialized"
    /\ pc = "poll"
    /\ tasks[CurrentId].kind = "print_keypresses" /\ ~tasks[CurrentId].stream
    /\ ~SCANCODE_QUEUE.init
    /\ task_queue # << >>

\* C31: one registration yields at most one wake.  wakesSinceRegister counts
\* the ready-queue insertions add_scancode made since the consumer last
\* registered its waker: it never exceeds one, and it is zero while the
\* registration is still in the cell.  An add_scancode that inserts into the
\* ready queue finds a registered waker, inserts that task's id once and
\* leaves the cell empty; an add_scancode that finds the cell empty leaves the
\* ready queue as it was, whether or not its scancode is pushed; and the cell
\* is filled again only by WAKER.register.
C31_OneWakePerRegistration ==
    /\ [](wakesSinceRegister <= 1)
    /\ [](WAKER # {} => wakesSinceRegister = 0)
    /\ [][ ev'.op = "add_scancode" /\ task_queue' # task_queue
              => /\ WAKER # {}
                 /\ WAKER' = {}
                 /\ ev'.out = "woken"
                 /\ task_queue' = Append(task_queue, CHOOSE t \in WAKER : TRUE)
                 /\ wakesSinceRegister = 0 /\ wakesSinceRegister' = 1 ]_vars
    /\ [][ ev'.op = "add_scancode" /\ ev' # ev /\ WAKER = {}
              => task_queue' = task_queue /\ WAKER' = {} ]_vars
    /\ [][ WAKER' # {} /\ WAKER' # WAKER
              => ev'.op = "register" /\ wakesSinceRegister' = 0 ]_vars

\* After one registration two scancodes were pushed: the first woke the
\* consumer, the second found the cell empty, and the ready queue holds the
\* consumer's id once.
C31_Witness ==
    /\ Running
    /\ ev.op = "add_scancode" /\ ev.out = "pushed"
    /\ wakesSinceRegister = 1
    /\ WAKER = {}
    /\ Len(SCANCODE_QUEUE.q) = 2
    /\ Len(task_queue) = 1
    /\ \E t \in Ids : Consumer(t) /\ task_queue = << t >> /\ tasks[t].kind = "print_keypresses"

====
